---- MODULE Spec2Model ----
(***************************************************************************)
(* Model of package netrom (wl2k-go/transport/netrom): the socket          *)
(* lifecycle of ListenNetROM, netromListener.Accept / Close, fd.waitRead,  *)
(* DialNetROMTimeout / fd.connectTimeout and Conn.Close, over an explicit  *)
(* process descriptor table (lowest free number is handed out, a closed    *)
(* number is free for reuse).                                              *)
(***************************************************************************)
EXTENDS Integers, Sequences, FiniteSets, TLC

\* ------------------------------------------------------------ bounds
MaxFd == 5          \* size of the process descriptor table
MaxListens == 2     \* ListenNetROM calls
MaxAccepts == 2     \* netromListener.Accept calls (may run concurrently)
MaxCloses == 2      \* netromListener.Close calls (may run concurrently)
MaxPending == 1     \* length of a listening socket's kernel accept queue
MaxConnCloses == 2  \* Conn.Close calls per Conn
MaxDials == 1       \* DialNetROMTimeout calls (may run concurrently)
MaxPorts == 1       \* largest port count nr_config_load_ports reports
MaxTasks == 2       \* concurrent Dial / Listen calls inside checkPort
MaxCallLen == 2     \* length of Address.Call
MaxStrLen == 5      \* length of the strings handed to AddressFromString

Fds == 1..MaxFd
Listens == 1..MaxListens
Accepts == 1..MaxAccepts
Closes == 1..MaxCloses
Dials == 1..MaxDials
ConnIds == 0..(MaxAccepts + MaxDials)
DialConn(d) == MaxAccepts + d
Tasks == 1..MaxTasks

\* Port names handed to ListenNetROM / DialNetROMTimeout: the empty name, a
\* configured port and a port that is not configured.
Ports == {"", "nr0", "nrX"}

VARIABLES
  fdtab,          \* descriptor table: number -> [kind, obj, nb]
  numNRPorts,     \* package variable numNRPorts (the port-count cache)
  \* ListenNetROM call l; on success it is also listener object l
  lpc, lport, lsock, lerr,
  closeCh,        \* ln.close of listener l: "nil", "open" or "closed"
  pending,        \* kernel accept queue length of listener l's socket
  lcloses,        \* OS close calls issued by Listener.Close on l's socket
  closeReturned,  \* a Listener.Close call on l has returned
  \* Accept call k (with its waitRead and helper goroutine)
  apc, aln, apr, apw, adone, hpc, pdata, awatch, aerr, ares, aafter,
  aready,         \* ready set of the syscall.Select that woke waitRead of call k
  \* Listener.Close call c
  cpc, cln,
  \* Conn objects: conns[k] is the Conn returned by Accept call k,
  \* conns[MaxAccepts + d] the Conn returned by Dial call d; 0 is the nil *Conn
  conns, ccalls, clast, ccloses,
  \* DialNetROMTimeout call d
  dpc, dport, dtimeout, dsock, derr, dres, dcloses, dtrace,
  dpend,          \* pending error (SO_ERROR) that connectTimeout of call d read
  \* Conn.Write / Conn.Read on Conn c: the last and the previous Write, the
  \* last Read, each as [raw, err]: the *os.File's answer and the method's
  wlast, wprev, rlast,
  \* one AddressFromString / Address.String computation
  codecPc, codecIn, codecStr, codecAddr, codecOut,
  \* checkPort call of task t, statement by statement
  tpc, tport, tn, terr

lvars == <<lpc, lport, lsock, lerr, closeCh, pending>>
avars == <<apc, aln, apr, apw, adone, hpc, pdata, awatch, aerr, ares, aafter, aready>>
cvars == <<cpc, cln, lcloses, closeReturned>>
nvars == <<conns, ccalls, clast, ccloses>>
dvars == <<dpc, dport, dtimeout, dsock, derr, dres, dcloses, dtrace, dpend>>
\* state of the operations that touch no socket of the calls above: Conn.Write
\* and Conn.Read results, the Address codec, and checkPort calls taken one
\* statement at a time
iovars == <<wlast, wprev, rlast>>
codecvars == <<codecPc, codecIn, codecStr, codecAddr, codecOut>>
tvars == <<tpc, tport, tn, terr>>
xvars == <<iovars, codecvars, tvars>>
vars == <<fdtab, numNRPorts, lvars, avars, cvars, nvars, dvars, xvars>>

\* ------------------------------------------------------------ descriptors
FreeEntry == [kind |-> "free", obj |-> 0, nb |-> FALSE]
NoWatch == [kind |-> "none", obj |-> 0]
\* No Select has woken the call: no ready set
NoReady == [set |-> FALSE, sock |-> FALSE, pipe |-> FALSE]
\* A Conn: the descriptor and closed flag of its *os.File, localAddr and
\* remoteAddr; lnOpen records whether the listener's close channel was still
\* open when Accept built the Conn.
NoConn == [fd |-> 0, fclosed |-> FALSE, local |-> 0, remote |-> 0, lnOpen |-> FALSE]

FreeFds(t) == {f \in Fds : t[f].kind = "free"}

Lowest(S) == CHOOSE f \in S : \A g \in S : f <= g

\* syscall.Close(n): the number n becomes free, whatever it named (EBADF, and
\* no change, when it names nothing).
OsClose(t, n) == IF n \in Fds /\ t[n].kind # "free" THEN [t EXCEPT ![n] = FreeEntry] ELSE t

\* syscall.SetNonblock(n, b); the callers in waitRead ignore its error.
SetNonblock(t, n, b) == IF n \in Fds /\ t[n].kind # "free" THEN [t EXCEPT ![n].nb = b] ELSE t

\* ------------------------------------------------------------ checkPort
Configured == {"nr0"}

portExists(port) == port \in Configured

\* What C.nr_config_load_ports can report: a count and an errno.
LoadOutcomes == [n : 0..MaxPorts, err : {"nil", "errno"}]

\* loadPorts: result [err, cache] for the current cache and the C call's outcome o
loadPorts(cache, o) ==
  IF cache > 0 THEN [err |-> "nil", cache |-> cache]
  ELSE IF o.err # "nil" THEN [err |-> "errno", cache |-> cache]
  ELSE IF o.n = 0 THEN [err |-> "ErrNoPorts", cache |-> cache]
  ELSE [err |-> "nil", cache |-> o.n]

\* Variant of checkPort: the portExists test is left out
checkPortNoExists(port, cache, o) ==
  IF port = "" THEN [err |-> "ErrEmptyPort", cache |-> cache]
  ELSE IF loadPorts(cache, o).err # "nil" THEN loadPorts(cache, o)
  ELSE [err |-> "nil", cache |-> loadPorts(cache, o).cache]

\* checkPort lines 66-77: result [err, cache]
checkPort(port, cache, o) ==
  IF port = "" THEN [err |-> "ErrEmptyPort", cache |-> cache]
  ELSE IF loadPorts(cache, o).err # "nil" THEN loadPorts(cache, o)
  ELSE IF ~portExists(port) THEN [err |-> "ErrPortNotExist", cache |-> loadPorts(cache, o).cache]
  ELSE [err |-> "nil", cache |-> loadPorts(cache, o).cache]

\* ------------------------------------------------------------ Address
\* A string is a sequence of one-character strings.
\* Largest value of Address.SSID (uint8)
MaxSSID == 255

\* Largest int32, the bit size handed to strconv.ParseInt
MaxInt32 == 2147483647

Digits == <<"0", "1", "2", "3", "4", "5", "6", "7", "8", "9">>

IsDigit(ch) == \E i \in 1..10 : Digits[i] = ch

DigitVal(ch) == (CHOOSE i \in 1..10 : Digits[i] = ch) - 1

\* Characters of the Call field and of the strings parsed
CallChars == {"A", "-"}
StrChars == {"A", "-", "+", "2", "5", "6"}

SeqsUpTo(S, n) == UNION {[1..m -> S] : m \in 0..n}

Addresses == [Call : SeqsUpTo(CallChars, MaxCallLen), SSID : 0..MaxSSID]
NoAddress == [Call |-> <<>>, SSID |-> 0]

\* fmt's %d of a uint8
RECURSIVE FormatUint(_)
FormatUint(n) ==
  IF n < 10 THEN <<Digits[n + 1]>>
  ELSE FormatUint(n \div 10) \o <<Digits[(n % 10) + 1]>>

\* strings.Split(str, "-")
RECURSIVE Split(_)
Split(str) ==
  IF \E i \in 1..Len(str) : str[i] = "-"
    THEN LET i == CHOOSE j \in 1..Len(str) :
                    str[j] = "-" /\ \A h \in 1..(j - 1) : str[h] # "-" IN
         <<SubSeq(str, 1, i - 1)>> \o Split(SubSeq(str, i + 1, Len(str)))
    ELSE <<str>>

\* Value of a sequence of decimal digits
RECURSIVE DigitsValue(_)
DigitsValue(ds) ==
  IF ds = <<>> THEN 0
  ELSE 10 * DigitsValue(SubSeq(ds, 1, Len(ds) - 1)) + DigitVal(ds[Len(ds)])

\* strconv.ParseInt(t, 10, 32): [ok, val]; an optional sign, then at least one
\* digit and digits only, and a value that fits 32 bits
ParseInt(t) ==
  LET signed == t # <<>> /\ t[1] \in {"+", "-"}
      ds == IF signed THEN Tail(t) ELSE t
      neg == signed /\ t[1] = "-" IN
  IF ds = <<>> \/ \E i \in 1..Len(ds) : ~IsDigit(ds[i])
    THEN [ok |-> FALSE, val |-> 0]
  ELSE IF DigitsValue(ds) > (IF neg THEN MaxInt32 + 1 ELSE MaxInt32)
    THEN [ok |-> FALSE, val |-> IF neg THEN -(MaxInt32 + 1) ELSE MaxInt32]
  ELSE [ok |-> TRUE, val |-> IF neg THEN -DigitsValue(ds) ELSE DigitsValue(ds)]

\* Variant of AddressFromString: the test ssid <= 255 is left out, and uint8()
\* truncates
AddressFromStringNoMax(str) ==
  LET parts == Split(str) IN
  [Call |-> parts[1],
   SSID |-> IF Len(parts) > 1 /\ ParseInt(parts[2]).ok /\ ParseInt(parts[2]).val >= 0
              THEN ParseInt(parts[2]).val % (MaxSSID + 1) ELSE 0]

\* AddressFromString, part_000 lines 116-126
AddressFromString(str) ==
  LET parts == Split(str) IN
  [Call |-> parts[1],
   SSID |-> IF Len(parts) > 1 /\ ParseInt(parts[2]).ok
               /\ ParseInt(parts[2]).val >= 0 /\ ParseInt(parts[2]).val <= MaxSSID
              THEN ParseInt(parts[2]).val ELSE 0]

\* Variant of AddressString: the test is SSID >= 0
AddressStringAlways(a) == a.Call \o <<"-">> \o FormatUint(a.SSID)

\* Address.String, part_000 lines 128-134
AddressString(a) ==
  IF a.SSID > 0 THEN a.Call \o <<"-">> \o FormatUint(a.SSID) ELSE a.Call

\* The inputs of one computation: an Address to format, parse and format
\* again, or a string to parse
CodecInputs ==
  [kind : {"addr"}, addr : Addresses, str : {<<>>}]
    \cup [kind : {"str"}, addr : {NoAddress}, str : SeqsUpTo(StrChars, MaxStrLen)]

\* a.String() of the input Address
CodecFormat ==
  /\ codecPc = "start" /\ codecIn.kind = "addr"
  /\ codecStr' = AddressString(codecIn.addr)
  /\ codecPc' = "parse"
  /\ UNCHANGED <<fdtab, numNRPorts, lvars, avars, cvars, nvars, dvars, iovars, tvars,
                 codecIn, codecAddr, codecOut>>

\* the input string as it is
CodecTake ==
  /\ codecPc = "start" /\ codecIn.kind = "str"
  /\ codecStr' = codecIn.str
  /\ codecPc' = "parse"
  /\ UNCHANGED <<fdtab, numNRPorts, lvars, avars, cvars, nvars, dvars, iovars, tvars,
                 codecIn, codecAddr, codecOut>>

\* AddressFromString of the string
CodecParse ==
  /\ codecPc = "parse"
  /\ codecAddr' = AddressFromString(codecStr)
  /\ codecPc' = "format"
  /\ UNCHANGED <<fdtab, numNRPorts, lvars, avars, cvars, nvars, dvars, iovars, tvars,
                 codecIn, codecStr, codecOut>>

\* String() of the parsed Address
CodecReformat ==
  /\ codecPc = "format"
  /\ codecOut' = AddressString(codecAddr)
  /\ codecPc' = "done"
  /\ UNCHANGED <<fdtab, numNRPorts, lvars, avars, cvars, nvars, dvars, iovars, tvars,
                 codecIn, codecStr, codecAddr>>

\* ------------------------------------------------------------ checkPort, by statement
\* The checkPort call that opens ListenNetROM (line 112) or DialNetROMTimeout
\* (line 146), run by task t concurrently with the other tasks' calls: each
\* read and each write of the package variable numNRPorts is a step.
TaskRet(t, e) ==
  /\ terr' = [terr EXCEPT ![t] = e]
  /\ tpc' = [tpc EXCEPT ![t] = "ret"]

\* checkPort lines 67-69: the empty-port test
CheckPortEnter(t) ==
  /\ tpc[t] = "idle"
  /\ \E port \in Ports :
       /\ tport' = [tport EXCEPT ![t] = port]
       /\ IF port = "" THEN TaskRet(t, "ErrEmptyPort")
          ELSE /\ tpc' = [tpc EXCEPT ![t] = "read"]
               /\ UNCHANGED terr
  /\ UNCHANGED <<fdtab, numNRPorts, lvars, avars, cvars, nvars, dvars, iovars, codecvars, tn>>

\* loadPorts lines 51-53: the read of numNRPorts
LoadPortsRead(t) ==
  /\ tpc[t] = "read"
  /\ tpc' = [tpc EXCEPT ![t] = IF numNRPorts > 0 THEN "exists" ELSE "call"]
  /\ UNCHANGED <<fdtab, numNRPorts, lvars, avars, cvars, nvars, dvars, iovars, codecvars,
                 tport, tn, terr>>

\* loadPorts lines 55-60: C.nr_config_load_ports and its error returns
LoadPortsCall(t) ==
  /\ tpc[t] = "call"
  /\ \E o \in LoadOutcomes :
       IF o.err # "nil" THEN TaskRet(t, "errno") /\ UNCHANGED tn
       ELSE IF o.n = 0 THEN TaskRet(t, "ErrNoPorts") /\ UNCHANGED tn
       ELSE /\ tn' = [tn EXCEPT ![t] = o.n]
            /\ tpc' = [tpc EXCEPT ![t] = "write"]
            /\ UNCHANGED terr
  /\ UNCHANGED <<fdtab, numNRPorts, lvars, avars, cvars, nvars, dvars, iovars, codecvars, tport>>

\* loadPorts line 62: the write numNRPorts = int(n)
LoadPortsWrite(t) ==
  /\ tpc[t] = "write"
  /\ numNRPorts' = tn[t]
  /\ tpc' = [tpc EXCEPT ![t] = "exists"]
  /\ UNCHANGED <<fdtab, lvars, avars, cvars, nvars, dvars, iovars, codecvars, tport, tn, terr>>

\* checkPort lines 73-76: the portExists test
CheckPortExists(t) ==
  /\ tpc[t] = "exists"
  /\ TaskRet(t, IF portExists(tport[t]) THEN "nil" ELSE "ErrPortNotExist")
  /\ UNCHANGED <<fdtab, numNRPorts, lvars, avars, cvars, nvars, dvars, iovars, codecvars,
                 tport, tn>>

CheckPortTask(t) ==
  \/ CheckPortEnter(t) \/ LoadPortsRead(t) \/ LoadPortsCall(t) \/ LoadPortsWrite(t)
  \/ CheckPortExists(t)

\* ------------------------------------------------------------ ListenNetROM
\* Listener object l exists once ListenNetROM call l has returned without error.
ListenerExists(l) == lpc[l] = "ret" /\ lerr[l] = "nil"

\* ListenNetROM, lines 112-120: checkPort, then the local address.
ListenCheckPort(l, ports, outs) ==
  /\ lpc[l] = "idle"
  /\ (l > 1) => lpc[l - 1] = "ret"
  /\ \E port \in ports, o \in outs :
       LET r == checkPort(port, numNRPorts, o) IN
       /\ lport' = [lport EXCEPT ![l] = port]
       /\ numNRPorts' = r.cache
       /\ lerr' = [lerr EXCEPT ![l] = r.err]
       /\ lpc' = [lpc EXCEPT ![l] = IF r.err = "nil" THEN "socket" ELSE "ret"]
  /\ UNCHANGED <<xvars, fdtab, lsock, closeCh, pending, avars, cvars, nvars, dvars>>

\* ListenNetROM, lines 123-128: syscall.Socket
ListenSocket(l) ==
  /\ lpc[l] = "socket"
  /\ IF FreeFds(fdtab) = {}
       THEN /\ lerr' = [lerr EXCEPT ![l] = "EMFILE"]
            /\ lpc' = [lpc EXCEPT ![l] = "ret"]
            /\ UNCHANGED <<fdtab, lsock>>
       ELSE LET f == Lowest(FreeFds(fdtab)) IN
            /\ fdtab' = [fdtab EXCEPT ![f] = [kind |-> "lsock", obj |-> l, nb |-> FALSE]]
            /\ lsock' = [lsock EXCEPT ![l] = f]
            /\ lpc' = [lpc EXCEPT ![l] = "bind"]
            /\ UNCHANGED lerr
  /\ UNCHANGED <<xvars, numNRPorts, lport, closeCh, pending, avars, cvars, nvars, dvars>>

\* ListenNetROM, lines 130-132: socket.bind; on failure the error is returned
\* and the descriptor is left as it is.
ListenBind(l, oks) ==
  /\ lpc[l] = "bind"
  /\ \E ok \in oks :
       /\ lerr' = [lerr EXCEPT ![l] = IF ok THEN "nil" ELSE "bindErr"]
       /\ lpc' = [lpc EXCEPT ![l] = IF ok THEN "listen" ELSE "ret"]
  /\ UNCHANGED <<xvars, fdtab, numNRPorts, lport, lsock, closeCh, pending, avars, cvars, nvars, dvars>>

\* ListenNetROM, lines 133-141: syscall.Listen, then the netromListener value
\* with a fresh close channel.
ListenListen(l, oks) ==
  /\ lpc[l] = "listen"
  /\ \E ok \in oks :
       IF ok
         THEN /\ fdtab' = [fdtab EXCEPT ![lsock[l]].kind = "listen"]
              /\ closeCh' = [closeCh EXCEPT ![l] = "open"]
              /\ UNCHANGED lerr
         ELSE /\ lerr' = [lerr EXCEPT ![l] = "listenErr"]
              /\ UNCHANGED <<fdtab, closeCh>>
  /\ lpc' = [lpc EXCEPT ![l] = "ret"]
  /\ UNCHANGED <<xvars, numNRPorts, lport, lsock, pending, avars, cvars, nvars, dvars>>

\* ListenNetROM with every answer the environment can give
ListenNetROM(l) ==
  \/ ListenCheckPort(l, Ports, LoadOutcomes)
  \/ ListenSocket(l)
  \/ ListenBind(l, BOOLEAN)
  \/ ListenListen(l, BOOLEAN)

\* ListenNetROM on a configured port of a loadable port table, where bind and
\* listen succeed (socket may still fail for want of a free descriptor)
GoodLoads == {o \in LoadOutcomes : o.err = "nil" /\ o.n > 0}

ListenNetROMOk(l) ==
  \/ ListenCheckPort(l, Configured, GoodLoads)
  \/ ListenSocket(l)
  \/ ListenBind(l, {TRUE})
  \/ ListenListen(l, {TRUE})

\* ------------------------------------------------------------ Accept / waitRead
\* ln.localAddr of listener l, and the address the kernel reports for the
\* station whose connection request is queued at listening socket obj.
LocalAddr(l) == l
PeerAddr(obj) == MaxListens + obj

TheSock(k) == lsock[aln[k]]

\* What select(2) reports for the object the socket number named when the call
\* entered the kernel: a listening socket is readable when its queue is not
\* empty, a pipe's read end when a byte is in it; whether a connected socket
\* has data is up to the peer.
SockReady(w) ==
  CASE w.kind = "listen" -> {pending[w.obj] > 0}
    [] w.kind = "pipeR" -> {pdata[w.obj]}
    [] w.kind \in {"conn", "dsock"} -> BOOLEAN
    [] OTHER -> {FALSE}

\* Accept line 89 and waitRead lines 295-312: os.Pipe, the helper goroutine,
\* the deferred cleanup and the descriptor set.
AcceptStart(k) ==
  /\ apc[k] = "idle"
  /\ (k > 1) => apc[k - 1] # "idle"
  /\ \E l \in Listens :
       /\ ListenerExists(l)
       /\ aln' = [aln EXCEPT ![k] = l]
       /\ aafter' = [aafter EXCEPT ![k] = closeReturned[l]]
  /\ IF Cardinality(FreeFds(fdtab)) < 2
       THEN /\ aerr' = [aerr EXCEPT ![k] = "EMFILE"]
            /\ apc' = [apc EXCEPT ![k] = "ret"]
            /\ UNCHANGED <<fdtab, apr, apw, hpc>>
       ELSE LET r == Lowest(FreeFds(fdtab))
                w == Lowest(FreeFds(fdtab) \ {r}) IN
            /\ fdtab' = [fdtab EXCEPT ![r] = [kind |-> "pipeR", obj |-> k, nb |-> FALSE],
                                      ![w] = [kind |-> "pipeW", obj |-> k, nb |-> FALSE]]
            /\ apr' = [apr EXCEPT ![k] = r]
            /\ apw' = [apw EXCEPT ![k] = w]
            /\ hpc' = [hpc EXCEPT ![k] = "select"]
            /\ apc' = [apc EXCEPT ![k] = "setnb"]
            /\ UNCHANGED aerr
  /\ UNCHANGED <<xvars, aready, numNRPorts, lvars, adone, pdata, awatch, ares, cvars, nvars, dvars>>

\* waitRead line 314: syscall.SetNonblock(int(sock), true)
AcceptSetNonblock(k) ==
  /\ apc[k] = "setnb"
  /\ fdtab' = SetNonblock(fdtab, TheSock(k), TRUE)
  /\ apc' = [apc EXCEPT ![k] = "select"]
  /\ UNCHANGED <<xvars, aready, numNRPorts, lvars, aln, apr, apw, adone, hpc, pdata, awatch, aerr, ares,
                 aafter, cvars, nvars, dvars>>

\* waitRead line 319, entry of syscall.Select: a number that names nothing gives
\* EBADF; otherwise the call waits on the objects the numbers name now.
AcceptSelectEnter(k) ==
  /\ apc[k] = "select"
  /\ IF fdtab[TheSock(k)].kind = "free" \/ fdtab[apr[k]].kind = "free"
       THEN /\ aerr' = [aerr EXCEPT ![k] = "EBADF"]
            /\ apc' = [apc EXCEPT ![k] = "defer1"]
            /\ UNCHANGED awatch
       ELSE /\ awatch' = [awatch EXCEPT ![k] = [kind |-> fdtab[TheSock(k)].kind,
                                                obj |-> fdtab[TheSock(k)].obj]]
            /\ apc' = [apc EXCEPT ![k] = "inselect"]
            /\ UNCHANGED aerr
  /\ UNCHANGED <<xvars, aready, fdtab, numNRPorts, lvars, aln, apr, apw, adone, hpc, pdata, ares, aafter,
                 cvars, nvars, dvars>>

\* Variant of waitReadResult: the test of the socket's bit is inverted
waitReadResultInv(sockSet) == IF sockSet THEN "EINVAL" ELSE "nil"

\* waitRead lines 319-330: Select returns with the ready set; the socket's bit
\* decides between nil and EINVAL.
waitReadResult(sockSet) == IF sockSet THEN "nil" ELSE "EINVAL"

AcceptSelectWake(k) ==
  /\ apc[k] = "inselect"
  /\ \E sr \in SockReady(awatch[k]) :
       /\ sr \/ pdata[k]
       /\ aerr' = [aerr EXCEPT ![k] = waitReadResult(sr)]
       /\ aready' = [aready EXCEPT ![k] = [set |-> TRUE, sock |-> sr, pipe |-> pdata[k]]]
  /\ apc' = [apc EXCEPT ![k] = "defer1"]
  /\ awatch' = [awatch EXCEPT ![k] = NoWatch]
  /\ UNCHANGED <<xvars, fdtab, numNRPorts, lvars, aln, apr, apw, adone, hpc, pdata, ares,
                 aafter, cvars, nvars, dvars>>

\* waitRead lines 320-322: Select interrupted by a signal (n < 0, EINTR)
AcceptSelectEINTR(k) ==
  /\ apc[k] = "inselect"
  /\ aerr' = [aerr EXCEPT ![k] = "EINTR"]
  /\ apc' = [apc EXCEPT ![k] = "defer1"]
  /\ awatch' = [awatch EXCEPT ![k] = NoWatch]
  /\ UNCHANGED <<xvars, aready, fdtab, numNRPorts, lvars, aln, apr, apw, adone, hpc, pdata, ares,
                 aafter, cvars, nvars, dvars>>

\* waitRead line 315, the deferred syscall.SetNonblock(int(sock), false)
AcceptDeferNonblock(k) ==
  /\ apc[k] = "defer1"
  /\ fdtab' = SetNonblock(fdtab, TheSock(k), FALSE)
  /\ apc' = [apc EXCEPT ![k] = "defer2"]
  /\ UNCHANGED <<xvars, aready, numNRPorts, lvars, aln, apr, apw, adone, hpc, pdata, awatch, aerr, ares,
                 aafter, cvars, nvars, dvars>>

\* waitRead line 309, the deferred close(done); pw.Close(), and Accept lines
\* 90-92: a waitRead error is Accept's result.
AcceptDeferDone(k) ==
  /\ apc[k] = "defer2"
  /\ adone' = [adone EXCEPT ![k] = TRUE]
  /\ fdtab' = OsClose(fdtab, apw[k])
  /\ apc' = [apc EXCEPT ![k] = IF aerr[k] = "nil" THEN "accept" ELSE "ret"]
  /\ UNCHANGED <<xvars, aready, numNRPorts, lvars, aln, apr, apw, hpc, pdata, awatch, aerr, ares, aafter,
                 cvars, nvars, dvars>>

\* Accept lines 94-105 once the kernel has a connection of listening socket
\* obj for the caller: a new descriptor, wrapped in a Conn.
TakeConn(k, obj) ==
  IF FreeFds(fdtab) = {}
    THEN /\ aerr' = [aerr EXCEPT ![k] = "EMFILE"]
         /\ UNCHANGED <<fdtab, pending, conns, ares>>
    ELSE LET nfd == Lowest(FreeFds(fdtab)) IN
         /\ fdtab' = [fdtab EXCEPT ![nfd] = [kind |-> "conn", obj |-> k, nb |-> FALSE]]
         /\ pending' = [pending EXCEPT ![obj] = @ - 1]
         /\ conns' = [conns EXCEPT ![k] = [fd |-> nfd, fclosed |-> FALSE,
                                           local |-> LocalAddr(aln[k]),
                                           remote |-> PeerAddr(obj),
                                           lnOpen |-> closeCh[aln[k]] = "open"]]
         /\ ares' = [ares EXCEPT ![k] = "conn"]
         /\ UNCHANGED aerr

\* Accept line 94 and fd.accept, entry of C.accept on the socket number
AcceptAcceptEnter(k) ==
  /\ apc[k] = "accept"
  /\ LET e == fdtab[TheSock(k)] IN
     IF e.kind = "listen" /\ pending[e.obj] > 0
       THEN /\ TakeConn(k, e.obj)
            /\ apc' = [apc EXCEPT ![k] = "ret"]
            /\ UNCHANGED awatch
     ELSE IF e.kind = "listen" /\ ~e.nb
       THEN /\ awatch' = [awatch EXCEPT ![k] = [kind |-> "listen", obj |-> e.obj]]
            /\ apc' = [apc EXCEPT ![k] = "inaccept"]
            /\ UNCHANGED <<fdtab, pending, conns, ares, aerr>>
     ELSE /\ aerr' = [aerr EXCEPT ![k] = CASE e.kind = "free" -> "EBADF"
                                           [] e.kind = "listen" -> "EAGAIN"
                                           [] e.kind \in {"pipeR", "pipeW"} -> "ENOTSOCK"
                                           [] OTHER -> "EINVAL"]
          /\ apc' = [apc EXCEPT ![k] = "ret"]
          /\ UNCHANGED <<fdtab, pending, conns, ares, awatch>>
  /\ aready' = [aready EXCEPT ![k] = NoReady]
  /\ UNCHANGED <<xvars, numNRPorts, lpc, lport, lsock, lerr, closeCh, aln, apr, apw, adone, hpc,
                 pdata, aafter, cvars, ccalls, clast, ccloses, dvars>>

\* fd.accept blocked in C.accept (blocking mode, empty queue): it returns when
\* a connection reaches the socket it entered on.
AcceptAcceptWake(k) ==
  /\ apc[k] = "inaccept"
  /\ pending[awatch[k].obj] > 0
  /\ TakeConn(k, awatch[k].obj)
  /\ apc' = [apc EXCEPT ![k] = "ret"]
  /\ awatch' = [awatch EXCEPT ![k] = NoWatch]
  /\ UNCHANGED <<xvars, aready, numNRPorts, lpc, lport, lsock, lerr, closeCh, aln, apr, apw, adone, hpc,
                 pdata, aafter, cvars, ccalls, clast, ccloses, dvars>>

\* waitRead lines 301-308, the helper goroutine: select on cancel and done,
\* and on cancel pw.Write([]byte("\n")), which writes nothing once the
\* deferred pw.Close() has run.
Helper(k) ==
  /\ hpc[k] = "select"
  /\ \/ /\ closeCh[aln[k]] = "closed"
        /\ pdata' = [pdata EXCEPT ![k] = @ \/ ~adone[k]]
     \/ /\ adone[k]
        /\ UNCHANGED pdata
  /\ hpc' = [hpc EXCEPT ![k] = "exit"]
  /\ UNCHANGED <<xvars, aready, fdtab, numNRPorts, lvars, apc, aln, apr, apw, adone, awatch, aerr, ares,
                 aafter, cvars, nvars, dvars>>

Accept(k) ==
  \/ AcceptStart(k) \/ AcceptSetNonblock(k) \/ AcceptSelectEnter(k) \/ AcceptSelectWake(k)
  \/ AcceptDeferNonblock(k) \/ AcceptDeferDone(k) \/ AcceptAcceptEnter(k)
  \/ AcceptAcceptWake(k)

\* A peer's connection request reaches listening socket l: the socket is open,
\* or a call that entered the kernel on it still holds it.
ConnArrives(l) ==
  /\ closeCh[l] # "nil"
  /\ pending[l] < MaxPending
  /\ \/ \E f \in Fds : fdtab[f].kind = "listen" /\ fdtab[f].obj = l
     \/ \E k \in Accepts : apc[k] \in {"inselect", "inaccept"}
                           /\ awatch[k] = [kind |-> "listen", obj |-> l]
  /\ pending' = [pending EXCEPT ![l] = @ + 1]
  /\ UNCHANGED <<xvars, fdtab, numNRPorts, lpc, lport, lsock, lerr, closeCh, avars, cvars, nvars, dvars>>

\* ------------------------------------------------------------ Listener.Close
\* Close line 83, close(ln.close): closing a closed channel panics.
LnCloseChan(c) ==
  /\ cpc[c] = "idle"
  /\ (c > 1) => cpc[c - 1] # "idle"
  /\ \E l \in Listens :
       /\ ListenerExists(l)
       /\ cln' = [cln EXCEPT ![c] = l]
       /\ IF closeCh[l] = "closed"
            THEN /\ cpc' = [cpc EXCEPT ![c] = "panic"]
                 /\ UNCHANGED closeCh
            ELSE /\ closeCh' = [closeCh EXCEPT ![l] = "closed"]
                 /\ cpc' = [cpc EXCEPT ![c] = "sock"]
  /\ UNCHANGED <<xvars, fdtab, numNRPorts, lpc, lport, lsock, lerr, pending, avars, lcloses,
                 closeReturned, nvars, dvars>>

\* Variant of LnCloseSock: Close also closes the descriptors of the Conns that
\* Accept returned for this listener
LnCloseSockAndConns(c) ==
  /\ cpc[c] = "sock"
  /\ fdtab' = [f \in Fds |->
       IF f = lsock[cln[c]]
          \/ \E k \in Accepts : conns[k].fd = f /\ conns[k].local = LocalAddr(cln[c])
         THEN FreeEntry ELSE fdtab[f]]
  /\ lcloses' = [lcloses EXCEPT ![cln[c]] = @ + 1]
  /\ closeReturned' = [closeReturned EXCEPT ![cln[c]] = TRUE]
  /\ cpc' = [cpc EXCEPT ![c] = "ret"]
  /\ UNCHANGED <<xvars, numNRPorts, lvars, avars, cln, nvars, dvars>>

\* Close line 83, return ln.sock.close()
LnCloseSock(c) ==
  /\ cpc[c] = "sock"
  /\ fdtab' = OsClose(fdtab, lsock[cln[c]])
  /\ lcloses' = [lcloses EXCEPT ![cln[c]] = @ + 1]
  /\ closeReturned' = [closeReturned EXCEPT ![cln[c]] = TRUE]
  /\ cpc' = [cpc EXCEPT ![c] = "ret"]
  /\ UNCHANGED <<xvars, numNRPorts, lvars, avars, cln, nvars, dvars>>

LnClose(c) == LnCloseChan(c) \/ LnCloseSock(c)

\* ------------------------------------------------------------ Conn.Close
\* Variant of ConnOk: no nil test
ConnOkAlways(c) == TRUE

\* Conn.ok, part_000 line 82
ConnOk(c) == c # 0

\* Conn.Close lines 183-189 on Conn c, or on a nil *Conn (c = 0). The embedded
\* *os.File closes its descriptor on the first Close and answers ErrClosed
\* afterwards; past ok() a nil receiver is dereferenced.
ConnClose(c) ==
  /\ ccalls[c] < MaxConnCloses
  /\ (c # 0) => conns[c].fd # 0
  /\ ccalls' = [ccalls EXCEPT ![c] = @ + 1]
  /\ IF ~ConnOk(c)
       THEN /\ clast' = [clast EXCEPT ![c] = "EINVAL"]
            /\ UNCHANGED <<fdtab, conns, ccloses>>
     ELSE IF c = 0
       THEN /\ clast' = [clast EXCEPT ![c] = "panic"]
            /\ UNCHANGED <<fdtab, conns, ccloses>>
     ELSE IF conns[c].fclosed
       THEN /\ clast' = [clast EXCEPT ![c] = "ErrClosed"]
            /\ UNCHANGED <<fdtab, conns, ccloses>>
     ELSE /\ clast' = [clast EXCEPT ![c] = "nil"]
          /\ conns' = [conns EXCEPT ![c].fclosed = TRUE]
          /\ ccloses' = [ccloses EXCEPT ![c] = @ + 1]
          /\ fdtab' = OsClose(fdtab, conns[c].fd)
  /\ UNCHANGED <<xvars, numNRPorts, lvars, avars, cvars, dvars>>

\* ------------------------------------------------------------ Conn.Write / Conn.Read
\* What the embedded *os.File answers: nil, io.EOF (a Read at end of file) and
\* *os.PathError values, named here by the error they wrap.
FileErrs == {"nil", "EMSGSIZE", "ENOTCONN", "EPIPE"}

FileAnswers(c, eof) ==
  IF conns[c].fclosed THEN {"ErrClosed"} ELSE FileErrs \cup eof

\* err.(*os.PathError), lines 197 and 216
IsPathError(e) == e \notin {"nil", "EOF"}

\* perr.Err.Error(), the text the switch statements compare
ErrText(e) ==
  CASE e = "EMSGSIZE" -> "message too long"
    [] e = "ENOTCONN" -> "transport endpoint is not connected"
    [] e = "EPIPE" -> "broken pipe"
    [] e = "ErrClosed" -> "file already closed"
    [] OTHER -> ""

\* Variant of ConnWriteErr: no translation, the file's error is returned
ConnWriteErrRaw(e) == e

\* Conn.Write lines 196-207: the error returned for the file's answer e
ConnWriteErr(e) ==
  IF ~IsPathError(e) THEN e
  ELSE IF ErrText(e) = "message too long" THEN "ErrMessageTooLong"
  ELSE e

\* Conn.Read lines 215-229: the error returned for the file's answer e
ConnReadErr(e) ==
  IF ~IsPathError(e) THEN e
  ELSE IF ErrText(e) = "transport endpoint is not connected" THEN "EOF"
  ELSE e

\* Conn.Write lines 191-208 on Conn c, or on a nil *Conn (c = 0)
ConnWrite(c) ==
  /\ (c # 0) => conns[c].fd # 0
  /\ wprev' = [wprev EXCEPT ![c] = wlast[c]]
  /\ IF ~ConnOk(c)
       THEN wlast' = [wlast EXCEPT ![c] = [raw |-> "none", err |-> "EINVAL"]]
       ELSE \E e \in FileAnswers(c, {}) :
              wlast' = [wlast EXCEPT ![c] = [raw |-> e, err |-> ConnWriteErr(e)]]
  /\ UNCHANGED <<fdtab, numNRPorts, lvars, avars, cvars, nvars, dvars, rlast, codecvars, tvars>>

\* Conn.Read lines 210-230 on Conn c, or on a nil *Conn (c = 0)
ConnRead(c) ==
  /\ (c # 0) => conns[c].fd # 0
  /\ IF ~ConnOk(c)
       THEN rlast' = [rlast EXCEPT ![c] = [raw |-> "none", err |-> "EINVAL"]]
       ELSE \E e \in FileAnswers(c, {"EOF"}) :
              rlast' = [rlast EXCEPT ![c] = [raw |-> e, err |-> ConnReadErr(e)]]
  /\ UNCHANGED <<fdtab, numNRPorts, lvars, avars, cvars, nvars, dvars, wlast, wprev, codecvars,
                 tvars>>

\* ------------------------------------------------------------ DialNetROMTimeout
\* Dialer.Timeout of DefaultDialer, in seconds
DefaultTimeout == 45

\* timeout arguments: 0 (DialNetROM) and a positive duration
Timeouts == {0, DefaultTimeout}

\* What the system calls of connectTimeout can answer.
ConnectErrs == {"nil", "ECONNREFUSED"}
NbConnectErrs == {"nil", "EINPROGRESS", "ECONNREFUSED"}
SelectOutcomes == {"ready", "timeout", "EINTR", "selErr"}
PendingErrs == {"nil", "EINPROGRESS", "EALREADY", "EINTR", "ECONNREFUSED"}

\* Variant of UsesBlockingConnect: the test is timeout < 0
UsesBlockingConnectNeg(timeout) == timeout < 0

\* connectTimeout line 240: timeout == 0 takes the plain blocking connect
UsesBlockingConnect(timeout) == timeout = 0

\* Variant of selectBranch: the readiness test is n >= 0 instead of n > 0
selectBranchGe(o) ==
  IF o = "selErr" THEN "fail"
  ELSE IF o \in {"ready", "timeout"} THEN "sockopt"
  ELSE "timeout"

\* connectTimeout lines 263-283, the branch taken on Select's answer:
\* n < 0 with an error other than EINTR, n > 0, and everything else.
selectBranch(o) ==
  IF o = "selErr" THEN "fail"
  ELSE IF o = "ready" THEN "sockopt"
  ELSE "timeout"

\* connectTimeout lines 273-279, the branch taken on the pending error SO_ERROR
pendingBranch(nerr) ==
  IF nerr # "nil" /\ nerr # "EINPROGRESS" /\ nerr # "EALREADY" /\ nerr # "EINTR"
    THEN "fail" ELSE "connected"

DialRet(d, e) ==
  /\ derr' = [derr EXCEPT ![d] = e]
  /\ dpc' = [dpc EXCEPT ![d] = "ret"]

\* sock.close() inside connectTimeout, then return err to DialNetROMTimeout
DialCloseAndFail(d, e) ==
  /\ fdtab' = OsClose(fdtab, dsock[d])
  /\ dcloses' = [dcloses EXCEPT ![d] = @ + 1]
  /\ derr' = [derr EXCEPT ![d] = e]
  /\ dpc' = [dpc EXCEPT ![d] = "after"]

\* DialNetROMTimeout lines 146-155: checkPort, then the addresses
DialCheckPort(d) ==
  /\ dpc[d] = "idle"
  /\ (d > 1) => dpc[d - 1] # "idle"
  /\ \E port \in Ports, t \in Timeouts, o \in LoadOutcomes :
       LET r == checkPort(port, numNRPorts, o) IN
       /\ dport' = [dport EXCEPT ![d] = port]
       /\ dtimeout' = [dtimeout EXCEPT ![d] = t]
       /\ numNRPorts' = r.cache
       /\ derr' = [derr EXCEPT ![d] = r.err]
       /\ dpc' = [dpc EXCEPT ![d] = IF r.err = "nil" THEN "socket" ELSE "ret"]
  /\ UNCHANGED <<xvars, dpend, fdtab, lvars, avars, cvars, nvars, dsock, dres, dcloses, dtrace>>

\* DialNetROMTimeout lines 158-163: syscall.Socket
DialSocket(d) ==
  /\ dpc[d] = "socket"
  /\ IF FreeFds(fdtab) = {}
       THEN /\ DialRet(d, "EMFILE")
            /\ UNCHANGED <<fdtab, dsock>>
       ELSE LET f == Lowest(FreeFds(fdtab)) IN
            /\ fdtab' = [fdtab EXCEPT ![f] = [kind |-> "dsock", obj |-> d, nb |-> FALSE]]
            /\ dsock' = [dsock EXCEPT ![d] = f]
            /\ dpc' = [dpc EXCEPT ![d] = "bind"]
            /\ UNCHANGED derr
  /\ UNCHANGED <<xvars, dpend, numNRPorts, lvars, avars, cvars, nvars, dport, dtimeout, dres, dcloses, dtrace>>

\* DialNetROMTimeout lines 165-167: socket.bind; on failure the error is
\* returned and the descriptor is left as it is.
DialBind(d) ==
  /\ dpc[d] = "bind"
  /\ \E ok \in BOOLEAN :
       IF ok THEN /\ dpc' = [dpc EXCEPT ![d] = "connect"]
                  /\ UNCHANGED derr
             ELSE DialRet(d, "bindErr")
  /\ UNCHANGED <<xvars, dpend, fdtab, numNRPorts, lvars, avars, cvars, nvars, dport, dtimeout, dsock, dres,
                 dcloses, dtrace>>

\* connectTimeout lines 240-242: timeout == 0, the blocking sock.connect, which
\* returns when the peer or the OS decides the attempt
DialBlockingConnect(d) ==
  /\ dpc[d] = "connect"
  /\ UsesBlockingConnect(dtimeout[d])
  /\ \E e \in ConnectErrs : derr' = [derr EXCEPT ![d] = e]
  /\ dpc' = [dpc EXCEPT ![d] = "after"]
  /\ UNCHANGED <<xvars, dpend, fdtab, numNRPorts, lvars, avars, cvars, nvars, dport, dtimeout, dsock, dres,
                 dcloses, dtrace>>

\* connectTimeout lines 243-245: syscall.SetNonblock(int(sock), true)
DialSetNonblock(d) ==
  /\ dpc[d] = "connect"
  /\ ~UsesBlockingConnect(dtimeout[d])
  /\ dtrace' = [dtrace EXCEPT ![d] = @ \cup {"setnb"}]
  /\ \E ok \in BOOLEAN :
       IF ok /\ fdtab[dsock[d]].kind # "free"
         THEN /\ fdtab' = SetNonblock(fdtab, dsock[d], TRUE)
              /\ dpc' = [dpc EXCEPT ![d] = "nbconnect"]
              /\ UNCHANGED derr
         ELSE /\ derr' = [derr EXCEPT ![d] = "nonblockErr"]
              /\ dpc' = [dpc EXCEPT ![d] = "after"]
              /\ UNCHANGED fdtab
  /\ UNCHANGED <<xvars, dpend, numNRPorts, lvars, avars, cvars, nvars, dport, dtimeout, dsock, dres, dcloses>>

\* connectTimeout lines 247-255: sock.connect on the non-blocking socket
DialNbConnect(d) ==
  /\ dpc[d] = "nbconnect"
  /\ \E e \in NbConnectErrs :
       IF e = "EINPROGRESS"
         THEN /\ dpc' = [dpc EXCEPT ![d] = "select"]
              /\ dtrace' = [dtrace EXCEPT ![d] = @ \cup {"inprogress"}]
              /\ UNCHANGED derr
         ELSE /\ derr' = [derr EXCEPT ![d] = e]
              /\ dpc' = [dpc EXCEPT ![d] = "after"]
              /\ UNCHANGED dtrace
  /\ UNCHANGED <<xvars, dpend, fdtab, numNRPorts, lvars, avars, cvars, nvars, dport, dtimeout, dsock, dres,
                 dcloses>>

\* connectTimeout lines 260-283: syscall.Select with the timeout for
\* writability, and the branch on its answer
DialSelect(d) ==
  /\ dpc[d] = "select"
  /\ \E o \in SelectOutcomes :
       /\ dtrace' = [dtrace EXCEPT ![d] = @ \cup {"select", o}]
       /\ CASE selectBranch(o) = "fail" -> DialCloseAndFail(d, "selErr")
            [] selectBranch(o) = "timeout" -> DialCloseAndFail(d, "ErrDialTimeout")
            [] OTHER -> /\ dpc' = [dpc EXCEPT ![d] = "sockopt"]
                        /\ UNCHANGED <<fdtab, dcloses, derr>>
  /\ UNCHANGED <<xvars, dpend, numNRPorts, lvars, avars, cvars, nvars, dport, dtimeout, dsock, dres>>

\* connectTimeout lines 268-279: syscall.GetsockoptInt(SO_ERROR) and the branch
\* on the pending error; "connected" leaves the loop.
DialSockopt(d) ==
  /\ dpc[d] = "sockopt"
  /\ \/ /\ DialCloseAndFail(d, "sockoptErr")
        /\ UNCHANGED dpend
     \/ \E nerr \in PendingErrs :
          /\ dpend' = [dpend EXCEPT ![d] = nerr]
          /\ IF pendingBranch(nerr) = "fail"
               THEN DialCloseAndFail(d, nerr)
               ELSE /\ dpc' = [dpc EXCEPT ![d] = "restore"]
                    /\ UNCHANGED <<fdtab, dcloses, derr>>
  /\ UNCHANGED <<xvars, numNRPorts, lvars, avars, cvars, nvars, dport, dtimeout, dsock, dres, dtrace>>

\* connectTimeout lines 286-287: syscall.SetNonblock(int(sock), false); return
DialRestore(d) ==
  /\ dpc[d] = "restore"
  /\ fdtab' = SetNonblock(fdtab, dsock[d], FALSE)
  /\ derr' = [derr EXCEPT ![d] = "nil"]
  /\ dpc' = [dpc EXCEPT ![d] = "after"]
  /\ UNCHANGED <<xvars, dpend, numNRPorts, lvars, avars, cvars, nvars, dport, dtimeout, dsock, dres, dcloses,
                 dtrace>>

\* DialNetROMTimeout lines 171-180: on an error socket.close() and return it,
\* otherwise the Conn over the socket
DialAfter(d) ==
  /\ dpc[d] = "after"
  /\ IF derr[d] # "nil"
       THEN /\ fdtab' = OsClose(fdtab, dsock[d])
            /\ dcloses' = [dcloses EXCEPT ![d] = @ + 1]
            /\ UNCHANGED <<conns, dres>>
       ELSE /\ conns' = [conns EXCEPT ![DialConn(d)] =
                           [fd |-> dsock[d], fclosed |-> FALSE, local |-> 0, remote |-> 0,
                            lnOpen |-> FALSE]]
            /\ dres' = [dres EXCEPT ![d] = "conn"]
            /\ UNCHANGED <<fdtab, dcloses>>
  /\ dpc' = [dpc EXCEPT ![d] = "ret"]
  /\ UNCHANGED <<xvars, dpend, numNRPorts, lvars, avars, cvars, ccalls, clast, ccloses, dport, dtimeout,
                 dsock, derr, dtrace>>

DialNetROMTimeout(d) ==
  \/ DialCheckPort(d) \/ DialSocket(d) \/ DialBind(d) \/ DialBlockingConnect(d)
  \/ DialSetNonblock(d) \/ DialNbConnect(d) \/ DialSelect(d) \/ DialSockopt(d)
  \/ DialRestore(d) \/ DialAfter(d)

\* ------------------------------------------------------------ specification
InitSockets ==
  /\ fdtab = [f \in Fds |-> FreeEntry]
  /\ numNRPorts = 0
  /\ lpc = [l \in Listens |-> "idle"]
  /\ lport = [l \in Listens |-> ""]
  /\ lsock = [l \in Listens |-> 0]
  /\ lerr = [l \in Listens |-> "nil"]
  /\ closeCh = [l \in Listens |-> "nil"]
  /\ pending = [l \in Listens |-> 0]
  /\ lcloses = [l \in Listens |-> 0]
  /\ closeReturned = [l \in Listens |-> FALSE]
  /\ apc = [k \in Accepts |-> "idle"]
  /\ aln = [k \in Accepts |-> 0]
  /\ apr = [k \in Accepts |-> 0]
  /\ apw = [k \in Accepts |-> 0]
  /\ adone = [k \in Accepts |-> FALSE]
  /\ hpc = [k \in Accepts |-> "none"]
  /\ pdata = [k \in Accepts |-> FALSE]
  /\ awatch = [k \in Accepts |-> NoWatch]
  /\ aerr = [k \in Accepts |-> "nil"]
  /\ ares = [k \in Accepts |-> "none"]
  /\ aafter = [k \in Accepts |-> FALSE]
  /\ cpc = [c \in Closes |-> "idle"]
  /\ cln = [c \in Closes |-> 0]
  /\ conns = [c \in ConnIds |-> NoConn]
  /\ ccalls = [c \in ConnIds |-> 0]
  /\ clast = [c \in ConnIds |-> "none"]
  /\ ccloses = [c \in ConnIds |-> 0]
  /\ dpc = [d \in Dials |-> "idle"]
  /\ dport = [d \in Dials |-> ""]
  /\ dtimeout = [d \in Dials |-> 0]
  /\ dsock = [d \in Dials |-> 0]
  /\ derr = [d \in Dials |-> "nil"]
  /\ dres = [d \in Dials |-> "none"]
  /\ dcloses = [d \in Dials |-> 0]
  /\ dtrace = [d \in Dials |-> {}]
  /\ aready = [k \in Accepts |-> NoReady]
  /\ dpend = [d \in Dials |-> "none"]
  /\ wlast = [c \in ConnIds |-> [raw |-> "none", err |-> "none"]]
  /\ wprev = [c \in ConnIds |-> [raw |-> "none", err |-> "none"]]
  /\ rlast = [c \in ConnIds |-> [raw |-> "none", err |-> "none"]]
  /\ tpc = [t \in Tasks |-> "idle"]
  /\ tport = [t \in Tasks |-> ""]
  /\ tn = [t \in Tasks |-> 0]
  /\ terr = [t \in Tasks |-> "nil"]

\* No Address computation
InitCodecOff ==
  /\ codecPc = "off"
  /\ codecIn = [kind |-> "none", addr |-> NoAddress, str |-> <<>>]
  /\ codecStr = <<>>
  /\ codecAddr = NoAddress
  /\ codecOut = <<>>

Init == InitSockets /\ InitCodecOff

\* One Address computation on any of the inputs
InitCodec ==
  /\ InitSockets
  /\ codecPc = "start"
  /\ codecIn \in CodecInputs
  /\ codecStr = <<>>
  /\ codecAddr = NoAddress
  /\ codecOut = <<>>

Next ==
  \/ \E l \in Listens : ListenNetROMOk(l)
  \/ \E k \in Accepts : Accept(k)
  \/ \E k \in Accepts : Helper(k)
  \/ \E k \in Accepts : AcceptSelectEINTR(k)
  \/ \E l \in Listens : ConnArrives(l)
  \/ \E c \in Closes : LnClose(c)
  \/ \E k \in Accepts : ConnClose(k)

Spec == Init /\ [][Next]_vars

\* Dial calls and a Listen call, with every answer of the environment
NextDial ==
  \/ \E d \in Dials : DialNetROMTimeout(d)
  \/ ListenNetROM(1)

SpecDial == Init /\ [][NextDial]_vars

\* Close calls on the Conn that a Dial call returns and on a nil *Conn
NextConn ==
  \/ DialNetROMTimeout(1)
  \/ \E c \in {0, DialConn(1)} : ConnClose(c)

SpecConn == Init /\ [][NextConn]_vars

\* Write, Read and Close calls on the Conn that a Dial call returns and on a
\* nil *Conn
NextIO ==
  \/ DialNetROMTimeout(1)
  \/ \E c \in {0, DialConn(1)} : ConnWrite(c)
  \/ \E c \in {0, DialConn(1)} : ConnRead(c)
  \/ ConnClose(DialConn(1))

SpecIO == Init /\ [][NextIO]_vars

\* Concurrent checkPort calls
NextPorts == \E t \in Tasks : CheckPortTask(t)

SpecPorts == Init /\ [][NextPorts]_vars

\* Address.String and AddressFromString
NextCodec == CodecFormat \/ CodecTake \/ CodecParse \/ CodecReformat

SpecCodec == InitCodec /\ [][NextCodec]_vars

\* One listener with concurrent Accept and Close calls
NextWait ==
  \/ ListenNetROMOk(1)
  \/ \E k \in Accepts : Accept(k)
  \/ \E k \in Accepts : Helper(k)
  \/ \E k \in Accepts : AcceptSelectEINTR(k)
  \/ ConnArrives(1)
  \/ \E c \in Closes : LnClose(c)

SpecWait == Init /\ [][NextWait]_vars

\* ------------------------------------------------------------ claims
\* Accept call k has started and not returned
InFlight(k) == apc[k] \notin {"idle", "ret"}

\* Accept call k or its helper goroutine has a step to take: the call is not
\* waiting on the environment
CanStep(k) == ENABLED (Accept(k) \/ Helper(k))

\* Descriptor number n still names the socket that Dial call d created
DialSockOpen(d) ==
  dsock[d] # 0 /\ fdtab[dsock[d]].kind = "dsock" /\ fdtab[dsock[d]].obj = d

\* Descriptor number n still names the socket that Listen call l created
ListenSockOpen(l) ==
  lsock[l] # 0 /\ fdtab[lsock[l]].kind \in {"lsock", "listen"} /\ fdtab[lsock[l]].obj = l

\* The descriptor of Conn c is open and is still the one the Conn was built on
ConnFdOpen(c) ==
  /\ conns[c].fd # 0
  /\ fdtab[conns[c].fd].kind = "conn"
  /\ fdtab[conns[c].fd].obj = c

\* C1: once Listener.Close has returned, every Accept call on that listener
\* that started before the Close returned (blocked before it, or started
\* during it) goes on to return: it never waits on something that only the
\* environment can supply.
C1_CloseUnblocksAccept ==
  \A k \in Accepts :
    (InFlight(k) /\ closeReturned[aln[k]] /\ ~aafter[k]) => CanStep(k)

\* C2: a DialNetROMTimeout or ListenNetROM call that returns an error after
\* its socket descriptor was created has closed that descriptor.
C2_NoLeakOnFailure ==
  /\ \A d \in Dials : (dpc[d] = "ret" /\ derr[d] # "nil") => ~DialSockOpen(d)
  /\ \A l \in Listens : (lpc[l] = "ret" /\ lerr[l] # "nil") => ~ListenSockOpen(l)

\* C3: the OS close is issued at most once on any socket descriptor the
\* package created, on every path of Dial and of the Listener operations.
C3_CloseAtMostOnce ==
  /\ \A d \in Dials : dcloses[d] <= 1
  /\ \A l \in Listens : lcloses[l] <= 1

\* C4: a Dial with timeout > 0 whose connect reported in-progress and whose
\* socket never became writable (the wait itself not failing) returns the
\* dial-timeout error and no Conn, and while it runs it always has a step to
\* take: it never waits on the peer.
C4_DialTimeoutReturns ==
  \A d \in Dials :
    (dtimeout[d] > 0 /\ "inprogress" \in dtrace[d]
       /\ "ready" \notin dtrace[d] /\ "selErr" \notin dtrace[d])
    => /\ dres[d] # "conn"
       /\ dpc[d] = "ret" => derr[d] = "ErrDialTimeout"
       /\ dpc[d] # "ret" => ENABLED DialNetROMTimeout(d)

C4_Witness ==
  \E d \in Dials :
    /\ dtimeout[d] > 0 /\ dpc[d] = "ret" /\ derr[d] = "ErrDialTimeout"
    /\ "inprogress" \in dtrace[d] /\ "timeout" \in dtrace[d]
    /\ "ready" \notin dtrace[d] /\ ~DialSockOpen(d)

\* C5: a Dial with timeout = 0 never sets the descriptor non-blocking, never
\* enters the bounded wait and never returns the dial-timeout error; once the
\* socket is bound its result is the result of the connect call itself.
C5_ZeroTimeoutBlocks ==
  \A d \in Dials :
    dtimeout[d] = 0
    => /\ dtrace[d] = {}
       /\ derr[d] # "ErrDialTimeout"
       /\ dpc[d] \notin {"nbconnect", "select", "sockopt", "restore"}
       /\ DialSockOpen(d) => ~fdtab[dsock[d]].nb
       /\ dpc[d] = "after" => derr[d] \in ConnectErrs
       /\ dres[d] = "conn" => derr[d] = "nil"

C5_Witness ==
  \E d \in Dials :
    /\ dtimeout[d] = 0 /\ dpc[d] = "ret" /\ dport[d] = "nr0"
    /\ dsock[d] # 0 /\ derr[d] = "ECONNREFUSED" /\ dcloses[d] = 1

\* Port argument that is empty or names no configured port
BadPort(port) == port = "" \/ ~portExists(port)

\* C6 as stated: a Dial or Listen call whose port is empty or not configured
\* returns ErrPortNotExist, before any descriptor is created.
C6_BadPortIsErrPortNotExist ==
  /\ \A d \in Dials : (dpc[d] = "ret" /\ BadPort(dport[d]))
       => derr[d] = "ErrPortNotExist" /\ dsock[d] = 0
  /\ \A l \in Listens : (lpc[l] = "ret" /\ BadPort(lport[l]))
       => lerr[l] = "ErrPortNotExist" /\ lsock[l] = 0

\* The errors checkPort gives for a bad port
BadPortErr(port, e) ==
  IF port = "" THEN e = "ErrEmptyPort"
  ELSE e \in {"ErrPortNotExist", "errno", "ErrNoPorts"}

\* C6 amended: a Dial or Listen call whose port is empty returns the
\* empty-port error, one whose port is not configured returns ErrPortNotExist
\* or the error of loading the port table; in both cases the call has
\* returned with no descriptor created, no close issued and no connect or wait
\* started, whatever the timeout.
C6_BadPortFailsFirst ==
  /\ \A d \in Dials : (dpc[d] # "idle" /\ BadPort(dport[d]))
       => /\ dpc[d] = "ret" /\ BadPortErr(dport[d], derr[d])
          /\ dsock[d] = 0 /\ dcloses[d] = 0 /\ dtrace[d] = {} /\ dres[d] = "none"
  /\ \A l \in Listens : (lpc[l] # "idle" /\ BadPort(lport[l]))
       => /\ lpc[l] = "ret" /\ BadPortErr(lport[l], lerr[l])
          /\ lsock[l] = 0 /\ closeCh[l] = "nil"

C6_Witness ==
  /\ \E d \in Dials : dpc[d] = "ret" /\ dport[d] = "nrX" /\ dtimeout[d] > 0
                      /\ derr[d] = "ErrPortNotExist"
  /\ \E l \in Listens : lpc[l] = "ret" /\ lport[l] = "" /\ lerr[l] = "ErrEmptyPort"

\* C7: a step of Listener.Close leaves every Conn that Accept has returned
\* and that has not been closed by its own Close as it was (descriptor entry,
\* closed flag, addresses); a Conn's addresses never
\* change; and the descriptor of a Conn stops being open only in a step of
\* that Conn's own Close.
C7_CloseLeavesConns ==
  [][ /\ (\E c \in Closes : LnClose(c))
          => \A k \in Accepts : (conns[k].fd # 0 /\ ~conns[k].fclosed)
               => conns'[k] = conns[k] /\ fdtab'[conns[k].fd] = fdtab[conns[k].fd]
      /\ \A k \in Accepts : conns[k].fd # 0
           => conns'[k].local = conns[k].local /\ conns'[k].remote = conns[k].remote
      /\ \A k \in Accepts : (ConnFdOpen(k) /\ ~ConnFdOpen(k)') => ConnClose(k)
    ]_vars

C7_Witness ==
  \E k \in Accepts :
    /\ conns[k].lnOpen /\ closeReturned[aln[k]]
    /\ ConnFdOpen(k) /\ ~conns[k].fclosed
    /\ conns[k].local = LocalAddr(aln[k])

\* C8: an Accept call that starts after Listener.Close has returned never
\* returns a Conn and never waits on the environment: it returns an error.
C8_ClosedListenerFailsFast ==
  \A k \in Accepts :
    aafter[k] => /\ ares[k] # "conn"
                 /\ InFlight(k) => CanStep(k)
                 /\ apc[k] = "ret" => aerr[k] # "nil"

\* C9: no Listener.Close call faults, whether it is the first or a later one,
\* and after any Close call has returned the listener's close channel is
\* closed.
C9_CloseIdempotent ==
  \A c \in Closes :
    /\ cpc[c] # "panic"
    /\ cpc[c] = "ret" => closeCh[cln[c]] = "closed"

\* C10: over any sequence of Close calls on a Conn the descriptor is closed
\* exactly once, by the first call, which succeeds; every later call returns
\* an error; Close on a nil *Conn returns EINVAL and does not fault.
C10_ConnCloseOnce ==
  \A c \in ConnIds :
    /\ ccloses[c] <= 1
    /\ (c # 0 /\ ccalls[c] >= 1) => ccloses[c] = 1 /\ conns[c].fclosed
    /\ (c # 0 /\ ccalls[c] = 1) => clast[c] = "nil"
    /\ (c # 0 /\ ccalls[c] >= 2) => clast[c] = "ErrClosed"
    /\ (c = 0 /\ ccalls[c] >= 1) => clast[c] = "EINVAL" /\ ccloses[c] = 0

C10_Witness ==
  /\ ccalls[DialConn(1)] >= 2 /\ clast[DialConn(1)] = "ErrClosed"
  /\ ccloses[DialConn(1)] = 1
  /\ ccalls[0] >= 1 /\ clast[0] = "EINVAL"

\* C11: a Write whose file write fails with "message too long" returns
\* ErrMessageTooLong, a Read whose file read fails with "transport endpoint is
\* not connected" returns io.EOF, every other answer of the file is returned
\* as it is, and a Write or Read step leaves the Conn and the descriptor table
\* as they were (the Conn stays open for a following Write).
C11_IoErrorMapping ==
  [][ /\ \A c \in ConnIds \ {0} :
           /\ wlast'[c].raw = "EMSGSIZE" => wlast'[c].err = "ErrMessageTooLong"
           /\ wlast'[c].raw \notin {"EMSGSIZE", "none"} => wlast'[c].err = wlast'[c].raw
           /\ rlast'[c].raw = "ENOTCONN" => rlast'[c].err = "EOF"
           /\ rlast'[c].raw \notin {"ENOTCONN", "none"} => rlast'[c].err = rlast'[c].raw
      /\ (\E c \in ConnIds : ConnWrite(c) \/ ConnRead(c))
           => conns' = conns /\ fdtab' = fdtab
    ]_vars

C11_Witness ==
  /\ wprev[DialConn(1)] = [raw |-> "EMSGSIZE", err |-> "ErrMessageTooLong"]
  /\ wlast[DialConn(1)] = [raw |-> "nil", err |-> "nil"]
  /\ rlast[DialConn(1)] = [raw |-> "ENOTCONN", err |-> "EOF"]
  /\ ~conns[DialConn(1)].fclosed

\* C12: no task is about to write the package variable numNRPorts while
\* another task is about to read or write it.
C12_NoSharedWrites ==
  \A a, b \in Tasks :
    (a # b /\ tpc[a] = "write") => tpc[b] \notin {"read", "write"}

\* The pipe ends that waitRead of Accept call k created are still open
PipeROpen(k) == apr[k] # 0 /\ fdtab[apr[k]].kind = "pipeR" /\ fdtab[apr[k]].obj = k
PipeWOpen(k) == apw[k] # 0 /\ fdtab[apw[k]].kind = "pipeW" /\ fdtab[apw[k]].obj = k

\* C13: once waitRead of an Accept call has returned, both ends of its pipe
\* are closed and its helper goroutine has ended or has its last step to take.
C13_WaitReadReleases ==
  \A k \in Accepts :
    (apc[k] \in {"accept", "inaccept", "ret"} /\ apr[k] # 0)
    => /\ ~PipeROpen(k)
       /\ ~PipeWOpen(k)
       /\ hpc[k] = "exit" \/ ENABLED Helper(k)

HasHyphen(str) == \E i \in 1..Len(str) : str[i] = "-"

FirstHyphen(str) == CHOOSE i \in 1..Len(str) : str[i] = "-" /\ \A h \in 1..(i - 1) : str[h] # "-"

\* The text before the first '-' and the text after it
BeforeHyphen(str) == SubSeq(str, 1, FirstHyphen(str) - 1)
AfterHyphen(str) == SubSeq(str, FirstHyphen(str) + 1, Len(str))

\* C14 as stated: for every Address, formatting, parsing and formatting again
\* gives the first text, and an Address with SSID 0 is formatted as its Call.
C14_RoundTrip ==
  (codecPc = "done" /\ codecIn.kind = "addr")
  => /\ codecOut = codecStr
     /\ codecIn.addr.SSID = 0 => codecStr = codecIn.addr.Call

\* C14 amended: for every Address whose Call holds no '-', parsing its text
\* gives the Address back and formatting again gives the same text; an Address
\* with SSID 0, whatever its Call, is formatted as its Call alone.
C14_RoundTripPlainCall ==
  (codecPc = "done" /\ codecIn.kind = "addr")
  => /\ ~HasHyphen(codecIn.addr.Call)
          => codecAddr = codecIn.addr /\ codecOut = codecStr
     /\ codecIn.addr.SSID = 0 => codecStr = codecIn.addr.Call

C14_Witness ==
  /\ codecPc = "done" /\ codecIn.kind = "addr"
  /\ codecIn.addr = [Call |-> <<"A", "A">>, SSID |-> MaxSSID]
  /\ codecStr = <<"A", "A", "-", "2", "5", "5">>
  /\ codecOut = codecStr

\* A decimal integer with an optional sign, and its value
IsNumeric(t) ==
  LET ds == IF t # <<>> /\ t[1] \in {"+", "-"} THEN Tail(t) ELSE t IN
  ds # <<>> /\ \A i \in 1..Len(ds) : IsDigit(ds[i])

NumValue(t) ==
  IF t[1] = "-" THEN -DigitsValue(Tail(t))
  ELSE IF t[1] = "+" THEN DigitsValue(Tail(t))
  ELSE DigitsValue(t)

\* Non-numeric, negative or greater than 255
Malformed(t) == ~IsNumeric(t) \/ NumValue(t) < 0 \/ NumValue(t) > MaxSSID

\* C15 as stated: an input whose text after the first '-' is malformed parses
\* to the text before the '-' with SSID 0.
C15_MalformedSuffixIsZero ==
  (codecPc \in {"format", "done"} /\ codecIn.kind = "str" /\ HasHyphen(codecIn.str)
     /\ Malformed(AfterHyphen(codecIn.str)))
  => codecAddr = [Call |-> BeforeHyphen(codecIn.str), SSID |-> 0]

\* The text between the first '-' and the next '-' or the end of the input
SSIDField(str) ==
  IF HasHyphen(AfterHyphen(str)) THEN BeforeHyphen(AfterHyphen(str)) ELSE AfterHyphen(str)

\* C15 amended: an input whose text between the first '-' and the next '-' (or
\* the end) is malformed parses to the text before the first '-' with SSID 0;
\* what follows a second '-' is not looked at.
C15_MalformedFieldIsZero ==
  (codecPc \in {"format", "done"} /\ codecIn.kind = "str" /\ HasHyphen(codecIn.str)
     /\ Malformed(SSIDField(codecIn.str)))
  => codecAddr = [Call |-> BeforeHyphen(codecIn.str), SSID |-> 0]

C15_Witness ==
  /\ codecPc = "done" /\ codecIn.kind = "str"
  /\ codecIn.str = <<"A", "-", "2", "5", "6">>
  /\ codecAddr = [Call |-> <<"A">>, SSID |-> 0]
  /\ codecOut = <<"A">>

\* C16: in connectTimeout with timeout > 0 a wake-up whose pending error is
\* EINPROGRESS or EALREADY sends the call back to the wait; the call leaves
\* the wait as connected only after a pending error of zero; every other
\* non-zero pending error ends the call with that error and no Conn.
C16_SpuriousWakeRetried ==
  \A d \in Dials :
    /\ dpend[d] \in {"EINPROGRESS", "EALREADY"} => dpc[d] = "select"
    /\ (dpc[d] = "restore" \/ (dres[d] = "conn" /\ "select" \in dtrace[d]))
         => dpend[d] = "nil"
    /\ dpend[d] \notin {"none", "nil", "EINPROGRESS", "EALREADY"}
         => dpc[d] \in {"after", "ret"} /\ derr[d] = dpend[d] /\ dres[d] # "conn"

\* C17: whenever connectTimeout has returned success, for any timeout and on
\* every path, and in the Conn that Dial then returns, the socket is in
\* blocking mode.
C17_SuccessIsBlocking ==
  \A d \in Dials :
    /\ (dpc[d] = "after" /\ derr[d] = "nil") => ~fdtab[dsock[d]].nb
    /\ (dres[d] = "conn" /\ DialSockOpen(d)) => ~fdtab[dsock[d]].nb

\* C18: a Dial call carries the dial-timeout error only if its wait elapsed
\* with no descriptor ready, and never after an interrupted wait (EINTR) or
\* any other answer of the wait.
C18_TimeoutOnlyWhenElapsed ==
  \A d \in Dials :
    derr[d] = "ErrDialTimeout"
    => /\ "timeout" \in dtrace[d]
       /\ dtrace[d] \cap {"EINTR", "ready", "selErr"} = {}

\* waitRead of Accept call k has been woken by Select and has not yet handed
\* its result on to C.accept
WaitReadWoken(k) == apc[k] \in {"defer1", "defer2", "accept"}

C20_NoUseAfterClose ==
  [][ \A k \in Accepts :
        (apc[k] # "idle" /\ ~aafter[k] /\ lcloses[aln[k]] > 0)
        => ~(AcceptSetNonblock(k) \/ AcceptSelectEnter(k) \/ AcceptDeferNonblock(k)
               \/ AcceptAcceptEnter(k))
    ]_vars

====
